---- MODULE Spec2Model ----
(***************************************************************************)
(* Model of src/src/motionsim/motionsim.cpp: the host function             *)
(* motion_device (table fill, copies, kernel launch, copy back, reduction) *)
(* and the Simulation kernel, one thread per particle, interleaved at the  *)
(* level of the kernel's memory accesses.                                  *)
(*                                                                         *)
(* Positions are fixed-point integers in units of 1/Unit = 0.0001, the     *)
(* common denominator of value/1000 and 0.0495, so the displacement of a   *)
(* draw v is exactly 10*v - 495 units.  Rounding of the float type is not  *)
(* modelled.                                                               *)
(***************************************************************************)
EXTENDS Integers, FiniteSets, Sequences, TLC

VARIABLES
  n_particles, nIterations, grid_size, radius,   \* parameters of motion_device
  hpc,                                           \* host position in motion_device
  fi,                                            \* loop index i of the fill loop
  randomX, randomY,                              \* host displacement tables
  particleX, particleY,                          \* host particle positions
  map,                                           \* host copy of the accumulators
  grid,                                          \* shared occupancy grid
  red,                                           \* loop indices (i, y, x) of the reduction
  a_randomX, a_randomY,                          \* device displacement tables
  a_particleX, a_particleY,                      \* device particle positions
  a_map,                                         \* device accumulators
  pc, iter,                                      \* per thread: position, iter
  displacementX, displacementY,                  \* per thread locals
  dX, dY, iX, iY,                                \* per thread locals
  cnt,                                           \* per thread: counter value loaded by ++
  wlog,                                          \* writes performed by kernel threads
  rlog,                                          \* table reads performed by kernel threads
  argv1,                                         \* main: argv[1] as a string of characters
  mpc,                                           \* main: position
  exit_status,                                   \* main: how the process ended
  usage_shown,                                   \* main: usage() was called
  a,                                             \* stencil host: padded input
  b,                                             \* stencil host: result
  d_a,                                           \* stencil device: input
  d_b,                                           \* stencil device: output
  temp,                                          \* stencil, per block: the shared array
  spc,                                           \* stencil, per thread: position
  result,                                        \* stencil, per thread: the sum
  slog,                                          \* stencil: accesses of the kernel threads
  shpc                                           \* stencil host: position

vars == <<n_particles, nIterations, grid_size, radius, hpc, fi, randomX, randomY,
          particleX, particleY, map, grid, red, a_randomX, a_randomY,
          a_particleX, a_particleY, a_map, pc, iter, displacementX,
          displacementY, dX, dY, iX, iY, cnt, wlog, rlog,
          argv1, mpc, exit_status, usage_shown,
          a, b, d_a, d_b, temp, spc, result, slog, shpc>>

stencilVars == <<a, b, d_a, d_b, temp, spc, result, slog, shpc>>
cliVars == <<argv1, mpc, exit_status, usage_shown>>
hostVars == <<hpc, fi, randomX, randomY, particleX, particleY, map, grid, red>>
paramVars == <<n_particles, nIterations, grid_size, radius>>
deviceIn == <<a_randomX, a_randomY>>

-----------------------------------------------------------------------------
(* Bounds of the model *)

MaxParticles == 2
MaxIter == 2
MaxGrid == 2
MaxTable == 4
BlockDim == 2

(* Fixed-point unit: 1.0 = Unit *)
Unit == 10000

(* const size_t scale = 100 *)
scale == 100

(* Values of rand() kept in the model *)
RawRands == {0, scale - 1, 3 * scale, 12 * scale - 1}

M_ScaleDrawRaw(r) == r

(* rand() % scale *)
ScaleDraw(r) == r % scale

(* Outcomes of rand() % scale kept in the model: the two extremes *)
Draws == {ScaleDraw(r) : r \in RawRands}

(* Radii (in units) the model runs with: 0, 0.5 as in main, and 1.0 *)
Radii == {0, Unit \div 2, Unit}

(* Initial coordinates: 0.0, 1.0 and the point one largest step below G *)
InitCoords(G) == {0, Unit, G * Unit - 495}

-----------------------------------------------------------------------------
(* Pure functions of the kernel *)

(* number of threads launched: dim3((n_particles + 255) / 256) blocks of dim3(256) *)
NumThreads(n) == ((n + BlockDim - 1) \div BlockDim) * BlockDim

Threads == 0 .. NumThreads(n_particles) - 1
Particles == 0 .. n_particles - 1

M_RandIndexTransposed(k, ii) == ii * nIterations + k

M_RandIndexNoStride(k, ii) == k + ii

(* iter * n_particles + ii *)
RandIndex(k, ii) == k * n_particles + ii

(* (float)randnum / 1000.0f - 0.0495, in units *)
Displacement(randnum) == randnum * 10 - 495

(* trunc(): rounds toward zero *)
Trunc(v) == IF v >= 0 THEN (v \div Unit) * Unit ELSE -(((-v) \div Unit) * Unit)

(* floor(), as the int cell index *)
Floor(v) == v \div Unit

M_InGridNoLower(px, py) == (px < grid_size * Unit) /\ (py < grid_size * Unit)

M_InGridClosed(px, py) == (px <= grid_size * Unit) /\ (py <= grid_size * Unit)
                          /\ (px >= 0) /\ (py >= 0)

(* the grid-membership test: both axes < grid_size and >= 0 *)
InGrid(px, py) == (px < grid_size * Unit) /\ (py < grid_size * Unit)
                  /\ (px >= 0) /\ (py >= 0)

M_InsideCellXOnly(ddx, ddy, r) == ddx * ddx <= r * r

M_InsideCellStrict(ddx, ddy, r) == ddx * ddx + ddy * ddy < r * r

(* dX * dX + dY * dY <= radius * radius *)
InsideCell(ddx, ddy, r) == ddx * ddx + ddy * ddy <= r * r

M_MapIndexShared(ii, cy, cx) == cy * grid_size + cx

(* ii * grid_size * grid_size + iY * grid_size + iX *)
MapIndex(ii, cy, cx) == ii * grid_size * grid_size + cy * grid_size + cx

M_IncrementedTwice(v) == v + 2

(* the ++ of the counter *)
Incremented(v) == v + 1

M_LoopCondInclusive(k, n) == k <= n

(* while (iter < nIterations) *)
LoopCond(k, n) == k < n

M_ReduceCondAboveOne(v) == v > 1

(* if (map[...] > 0) of the reduction *)
ReduceCond(v) == v > 0

M_KernelCompleteNoWait == TRUE

(* hipMemcpy after the launch, on the null stream: waits for the kernel *)
KernelComplete == \A t \in Threads : pc[t] = "done"

MapSize == n_particles * grid_size * grid_size

-----------------------------------------------------------------------------
(* main: the command line.  An argument is a sequence of characters; the
   arguments of the model are too short to leave the range of int. *)

MaxArgLen == 2

(* size_t nIterations = 50 *)
DefaultIterations == 50

ArgChars == {" ", "-", "1", "a"}
DigitChars == {"0", "1", "2", "3", "4", "5", "6", "7", "8", "9"}
DigitVal(c) ==
  CASE c = "0" -> 0 [] c = "1" -> 1 [] c = "2" -> 2 [] c = "3" -> 3 [] c = "4" -> 4
    [] c = "5" -> 5 [] c = "6" -> 6 [] c = "7" -> 7 [] c = "8" -> 8 [] c = "9" -> 9

(* argv[1] when argc = 1: the null pointer that ends argv *)
NoArg == <<"NULL">>

(* std::stoi: leading whitespace is skipped *)
RECURSIVE SkipSpaces(_)
SkipSpaces(str) == IF str # <<>> /\ Head(str) = " " THEN SkipSpaces(Tail(str)) ELSE str

(* std::stoi: the value and the length of the longest prefix of digits *)
RECURSIVE DigitPrefix(_, _, _)
DigitPrefix(str, acc, n) ==
  IF str # <<>> /\ Head(str) \in DigitChars
  THEN DigitPrefix(Tail(str), acc * 10 + DigitVal(Head(str)), n + 1)
  ELSE [value |-> acc, digits |-> n]

(* std::stoi(argv[1]): whitespace, an optional sign, digits; what follows
   the digits is ignored; no digit at all throws std::invalid_argument *)
Stoi(str) ==
  LET rest == SkipSpaces(str)
      neg == rest # <<>> /\ Head(rest) = "-"
      c == IF rest # <<>> /\ Head(rest) \in {"-", "+"} THEN Tail(rest) ELSE rest
      d == DigitPrefix(c, 0, 0)
  IN IF d.digits = 0 THEN [ok |-> FALSE, value |-> 0]
     ELSE [ok |-> TRUE, value |-> IF neg THEN -d.value ELSE d.value]

(* the decimal argument of a one-digit number *)
Decimal(n) == <<CHOOSE c \in DigitChars : DigitVal(c) = n>>

(* the arguments of the model: every string up to MaxArgLen whose value, if
   it has one, is at most MaxIter, and the missing argument *)
Args ==
  {str \in UNION {[1 .. n -> ArgChars] : n \in 0 .. MaxArgLen} :
     Stoi(str).ok => Stoi(str).value <= MaxIter} \cup {NoArg}

-----------------------------------------------------------------------------
(* stencil_1d is a program of its own: while motionsim runs it does not *)
StencilOff ==
  /\ a = <<>> /\ b = <<>> /\ d_a = <<>> /\ d_b = <<>>
  /\ temp = <<>> /\ spc = <<>> /\ result = <<>>
  /\ slog = {}
  /\ shpc = "off"

-----------------------------------------------------------------------------
(* main: parameters, allocation and initialisation of the host arrays *)

InitArrays ==
  /\ n_particles \in 1 .. MaxParticles
  /\ nIterations \in 0 .. MaxIter
  /\ n_particles * nIterations <= MaxTable
  /\ grid_size = MaxGrid
  /\ radius \in Radii
  /\ \E x0 \in InitCoords(grid_size), y0 \in InitCoords(grid_size) :
       /\ particleX = [p \in Particles |-> x0]
       /\ particleY = [p \in Particles |-> y0]
  /\ hpc = "fill"
  /\ map = [j \in 0 .. MapSize - 1 |-> 0]
  /\ grid = [cy \in 0 .. grid_size - 1 |-> [cx \in 0 .. grid_size - 1 |-> 0]]
  /\ red = [i |-> 0, y |-> 0, x |-> 0]
  /\ a_randomX = [j \in {} |-> 0]
  /\ a_randomY = [j \in {} |-> 0]
  /\ a_particleX = [j \in {} |-> 0]
  /\ a_particleY = [j \in {} |-> 0]
  /\ a_map = [j \in {} |-> 0]
  /\ pc = [t \in Threads |-> "unlaunched"]
  /\ iter = [t \in Threads |-> 0]
  /\ displacementX = [t \in Threads |-> 0]
  /\ displacementY = [t \in Threads |-> 0]
  /\ dX = [t \in Threads |-> 0]
  /\ dY = [t \in Threads |-> 0]
  /\ iX = [t \in Threads |-> 0]
  /\ iY = [t \in Threads |-> 0]
  /\ cnt = [t \in Threads |-> 0]
  /\ wlog = {}
  /\ rlog = {}
  /\ StencilOff
  /\ argv1 = Decimal(nIterations)
  /\ mpc = "simulate"
  /\ exit_status = "none"
  /\ usage_shown = FALSE

(* the state on entry to motion_device: the tables are allocated, not filled *)
Init ==
  /\ InitArrays
  /\ fi = 0
  /\ randomX = [j \in {} |-> 0]
  /\ randomY = [j \in {} |-> 0]

threadLocals == <<iter, displacementX, displacementY, dX, dY, iX, iY, cnt>>
deviceVars == <<a_randomX, a_randomY, a_particleX, a_particleY, a_map>>

-----------------------------------------------------------------------------
(* motion_device: host steps *)

(* one pass of the fill loop: randomX[i] = rand() % scale; randomY[i] = ... *)
FillRandom ==
  /\ hpc = "fill"
  /\ fi < n_particles * nIterations
  /\ \E vx \in Draws, vy \in Draws :
       /\ randomX' = [j \in 0 .. fi |-> IF j = fi THEN vx ELSE randomX[j]]
       /\ randomY' = [j \in 0 .. fi |-> IF j = fi THEN vy ELSE randomY[j]]
  /\ fi' = fi + 1
  /\ UNCHANGED <<paramVars, cliVars, stencilVars, hpc, particleX, particleY, map, grid, red,
                 deviceVars, pc, threadLocals, wlog, rlog>>

(* fill loop exit, hipMalloc and the five hipMemcpy host-to-device *)
CopyToDevice ==
  /\ hpc = "fill"
  /\ ~(fi < n_particles * nIterations)
  /\ a_randomX' = randomX
  /\ a_randomY' = randomY
  /\ a_particleX' = particleX
  /\ a_particleY' = particleY
  /\ a_map' = map
  /\ hpc' = "launch"
  /\ UNCHANGED <<paramVars, cliVars, stencilVars, fi, randomX, randomY, particleX, particleY, map,
                 grid, red, pc, threadLocals, wlog, rlog>>

(* hipLaunchKernelGGL: asynchronous, the threads start *)
Launch ==
  /\ hpc = "launch"
  /\ pc' = [t \in Threads |-> "entry"]
  /\ hpc' = "copyback"
  /\ UNCHANGED <<paramVars, cliVars, stencilVars, fi, randomX, randomY, particleX, particleY, map,
                 grid, red, deviceVars, threadLocals, wlog, rlog>>

(* hipMemcpy(map, d_map, ..., hipMemcpyDeviceToHost) *)
CopyBack ==
  /\ hpc = "copyback"
  /\ KernelComplete
  /\ map' = a_map
  /\ hpc' = "reduce"
  /\ red' = [i |-> 0, y |-> 0, x |-> 0]
  /\ UNCHANGED <<paramVars, cliVars, stencilVars, fi, randomX, randomY, particleX, particleY, grid,
                 deviceVars, pc, threadLocals, wlog, rlog>>

(* the loop indices after one pass of the innermost reduction loop *)
NextRed(r) ==
  IF r.x + 1 < grid_size THEN [r EXCEPT !.x = r.x + 1]
  ELSE IF r.y + 1 < grid_size THEN [r EXCEPT !.y = r.y + 1, !.x = 0]
  ELSE [i |-> r.i + 1, y |-> 0, x |-> 0]

M_AccumulatedAssign(g, v) == v

(* grid[y][x] += map[...] *)
Accumulated(g, v) == g + v

(* the body of the innermost reduction loop, for particle i and cell (y, x) *)
ReduceCell(g, m, i, y, x) ==
  LET v == m[MapIndex(i, y, x)] IN
    IF ReduceCond(v) THEN [g EXCEPT ![y][x] = Accumulated(@, v)] ELSE g

(* one pass of the innermost reduction loop *)
ReduceStep ==
  /\ hpc = "reduce"
  /\ red.i < n_particles
  /\ grid' = ReduceCell(grid, map, red.i, red.y, red.x)
  /\ red' = NextRed(red)
  /\ hpc' = IF NextRed(red).i < n_particles THEN "reduce" ELSE "done"
  /\ UNCHANGED <<paramVars, cliVars, stencilVars, fi, randomX, randomY, particleX, particleY, map,
                 deviceVars, pc, threadLocals, wlog, rlog>>

-----------------------------------------------------------------------------
(* Simulation: steps of thread t *)

M_NoParticleAbove(ii) == ii > n_particles

(* if (ii >= n_particles) return; *)
NoParticle(ii) == ii >= n_particles

(* the guard; size_t iter = 0; first loop test *)
ThreadEntry(t) ==
  /\ pc[t] = "entry"
  /\ pc' = [pc EXCEPT ![t] = IF NoParticle(t) THEN "done"
                             ELSE IF LoopCond(0, nIterations) THEN "advance"
                             ELSE "done"]
  /\ UNCHANGED <<paramVars, cliVars, stencilVars, hostVars, deviceVars, threadLocals, wlog, rlog>>

(* a position clamped to the grid *)
M_MovedClamped(p, d) ==
  IF p + d < 0 THEN 0 ELSE IF p + d > grid_size * Unit THEN grid_size * Unit ELSE p + d

(* p += d *)
Moved(p, d) == p + d

(* a_particleX[ii] += displacementX; a_particleY[ii] += displacementY *)
AdvanceBy(t, ddx, ddy) ==
  /\ displacementX' = [displacementX EXCEPT ![t] = ddx]
  /\ displacementY' = [displacementY EXCEPT ![t] = ddy]
  /\ a_particleX' = [a_particleX EXCEPT ![t] = Moved(@, ddx)]
  /\ a_particleY' = [a_particleY EXCEPT ![t] = Moved(@, ddy)]
  /\ wlog' = wlog \cup {<<t, "a_particleX", t>>, <<t, "a_particleY", t>>}
  /\ pc' = [pc EXCEPT ![t] = "classify"]
  /\ UNCHANGED <<paramVars, cliVars, stencilVars, hostVars, deviceIn, a_map, iter, dX, dY, iX, iY, cnt>>

(* the two table reads of thread t in its current iteration *)
TableReads(t) == {<<t, "a_randomX", iter[t], RandIndex(iter[t], t)>>,
                  <<t, "a_randomY", iter[t], RandIndex(iter[t], t)>>}

(* read the two draws, transform them, move the particle *)
Advance(t) ==
  /\ pc[t] = "advance"
  /\ AdvanceBy(t, Displacement(a_randomX[RandIndex(iter[t], t)]),
                  Displacement(a_randomY[RandIndex(iter[t], t)]))
  /\ rlog' = rlog \cup TableReads(t)

(* the pc after the body of one iteration: iter++ and the loop test *)
AfterIter(t) == IF LoopCond(iter[t] + 1, nIterations) THEN "advance" ELSE "done"

(* offsets, cell indices, the grid test and the radius test *)
Classify(t) ==
  /\ pc[t] = "classify"
  /\ LET ddx == a_particleX[t] - Trunc(a_particleX[t])
         ddy == a_particleY[t] - Trunc(a_particleY[t])
         hit == /\ InGrid(a_particleX[t], a_particleY[t])
                /\ InsideCell(ddx, ddy, radius)
     IN /\ dX' = [dX EXCEPT ![t] = ddx]
        /\ dY' = [dY EXCEPT ![t] = ddy]
        /\ iX' = [iX EXCEPT ![t] = Floor(a_particleX[t])]
        /\ iY' = [iY EXCEPT ![t] = Floor(a_particleY[t])]
        /\ IF hit
           THEN /\ pc' = [pc EXCEPT ![t] = "load"]
                /\ iter' = iter
           ELSE /\ pc' = [pc EXCEPT ![t] = AfterIter(t)]
                /\ iter' = [iter EXCEPT ![t] = @ + 1]
  /\ UNCHANGED <<paramVars, cliVars, stencilVars, hostVars, deviceVars, displacementX, displacementY,
                 cnt, wlog, rlog>>

(* a_map[...]++ : the read *)
LoadCounter(t) ==
  /\ pc[t] = "load"
  /\ cnt' = [cnt EXCEPT ![t] = a_map[MapIndex(t, iY[t], iX[t])]]
  /\ pc' = [pc EXCEPT ![t] = "store"]
  /\ UNCHANGED <<paramVars, cliVars, stencilVars, hostVars, deviceVars, iter, displacementX,
                 displacementY, dX, dY, iX, iY, wlog, rlog>>

(* a_map[...]++ : the write; then iter++ and the loop test *)
StoreCounter(t) ==
  /\ pc[t] = "store"
  /\ a_map' = [a_map EXCEPT ![MapIndex(t, iY[t], iX[t])] = Incremented(cnt[t])]
  /\ wlog' = wlog \cup {<<t, "a_map", MapIndex(t, iY[t], iX[t])>>}
  /\ iter' = [iter EXCEPT ![t] = @ + 1]
  /\ pc' = [pc EXCEPT ![t] = AfterIter(t)]
  /\ UNCHANGED <<paramVars, cliVars, stencilVars, hostVars, deviceIn, a_particleX, a_particleY,
                 displacementX, displacementY, dX, dY, iX, iY, cnt, rlog>>

-----------------------------------------------------------------------------

Next ==
  \/ FillRandom
  \/ CopyToDevice
  \/ Launch
  \/ CopyBack
  \/ ReduceStep
  \/ \E t \in Threads : ThreadEntry(t)
  \/ \E t \in Threads : Advance(t)
  \/ \E t \in Threads : Classify(t)
  \/ \E t \in Threads : LoadCounter(t)
  \/ \E t \in Threads : StoreCounter(t)

Spec == Init /\ [][Next]_vars

(* the device runs every launched thread and the host keeps running: a step
   that stays possible is eventually taken *)
-----------------------------------------------------------------------------
(* main as a whole: command line, allocation, motion_device, exit *)

NoArray == [j \in {} |-> 0]

(* process start: constants of main set, nothing allocated *)
InitMain ==
  /\ StencilOff
  /\ argv1 \in Args
  /\ mpc = "start"
  /\ exit_status = "none"
  /\ usage_shown = FALSE
  /\ n_particles \in 1 .. MaxParticles
  /\ grid_size = MaxGrid
  /\ radius \in Radii
  /\ nIterations = DefaultIterations
  /\ hpc = "idle"
  /\ fi = 0
  /\ red = [i |-> 0, y |-> 0, x |-> 0]
  /\ randomX = NoArray /\ randomY = NoArray
  /\ particleX = NoArray /\ particleY = NoArray
  /\ map = NoArray /\ grid = NoArray
  /\ a_randomX = NoArray /\ a_randomY = NoArray
  /\ a_particleX = NoArray /\ a_particleY = NoArray
  /\ a_map = NoArray
  /\ pc = [t \in Threads |-> "unlaunched"]
  /\ iter = [t \in Threads |-> 0]
  /\ displacementX = [t \in Threads |-> 0]
  /\ displacementY = [t \in Threads |-> 0]
  /\ dX = [t \in Threads |-> 0]
  /\ dY = [t \in Threads |-> 0]
  /\ iX = [t \in Threads |-> 0]
  /\ iY = [t \in Threads |-> 0]
  /\ cnt = [t \in Threads |-> 0]
  /\ wlog = {} /\ rlog = {}

simData == <<fi, randomX, randomY, particleX, particleY, map, grid, red,
             deviceVars, pc, threadLocals, wlog, rlog>>

(* try { nIterations = std::stoi(argv[1]); } catch (...) { usage; return 1; } *)
ParseArg ==
  /\ mpc = "start"
  /\ \/ /\ argv1 = NoArg
        /\ \/ (usage_shown' = TRUE /\ exit_status' = "1")
           \/ (usage_shown' = FALSE /\ exit_status' = "SIGSEGV")
        /\ mpc' = "exited"
        /\ UNCHANGED nIterations
     \/ /\ argv1 # NoArg
        /\ ~Stoi(argv1).ok
        /\ usage_shown' = TRUE
        /\ exit_status' = "1"
        /\ mpc' = "exited"
        /\ UNCHANGED nIterations
     \/ /\ argv1 # NoArg
        /\ Stoi(argv1).ok
        /\ nIterations' = Stoi(argv1).value
        /\ mpc' = "allocate"
        /\ UNCHANGED <<usage_shown, exit_status>>
  /\ UNCHANGED <<n_particles, grid_size, radius, argv1, hpc, simData, stencilVars>>

(* the array news and the initialisation loops; a negative value stored in
   the size_t nIterations is at least 2^63, the array size does not fit
   size_t, new throws std::bad_array_new_length and nothing catches it *)
Allocate ==
  /\ mpc = "allocate"
  /\ IF nIterations < 0
     THEN /\ exit_status' = "SIGABRT"
          /\ mpc' = "exited"
          /\ UNCHANGED <<hpc, simData>>
     ELSE /\ \E x0 \in InitCoords(grid_size), y0 \in InitCoords(grid_size) :
               /\ particleX' = [p \in Particles |-> x0]
               /\ particleY' = [p \in Particles |-> y0]
          /\ hpc' = "fill"
          /\ map' = [j \in 0 .. MapSize - 1 |-> 0]
          /\ grid' = [cy \in 0 .. grid_size - 1 |-> [cx \in 0 .. grid_size - 1 |-> 0]]
          /\ mpc' = "simulate"
          /\ UNCHANGED <<exit_status, fi, randomX, randomY, red, deviceVars,
                         pc, threadLocals, wlog, rlog>>
  /\ UNCHANGED <<paramVars, argv1, usage_shown, stencilVars>>

(* motion_device has returned: print, delete, return 0 *)
Exit ==
  /\ mpc = "simulate"
  /\ hpc = "done"
  /\ exit_status' = "0"
  /\ mpc' = "exited"
  /\ UNCHANGED <<paramVars, argv1, usage_shown, hpc, simData, stencilVars>>

NextMain ==
  \/ ParseArg
  \/ Allocate
  \/ Exit
  \/ FillRandom
  \/ CopyToDevice
  \/ Launch
  \/ CopyBack
  \/ ReduceStep
  \/ \E t \in Threads : ThreadEntry(t)
  \/ \E t \in Threads : Advance(t)
  \/ \E t \in Threads : Classify(t)
  \/ \E t \in Threads : LoadCounter(t)
  \/ \E t \in Threads : StoreCounter(t)

SpecMain == InitMain /\ [][NextMain]_vars

-----------------------------------------------------------------------------
(* stencil_1d: sizes *)

THREADS_PER_BLOCK == 2
RADIUS == 1
NumBlocks == 2

N == NumBlocks * THREADS_PER_BLOCK
BLOCK_SIZE == THREADS_PER_BLOCK
TempSize == BLOCK_SIZE + 2 * RADIUS

StencilThreads == 0 .. N - 1
threadIdx(g) == g % THREADS_PER_BLOCK
blockIdx(g) == g \div THREADS_PER_BLOCK
blockDim == THREADS_PER_BLOCK

(* int gindex = threadIdx.x + blockIdx.x * blockDim.x *)
gindex(g) == threadIdx(g) + blockIdx(g) * blockDim

(* int lindex = threadIdx.x + RADIUS *)
lindex(g) == threadIdx(g) + RADIUS

(* what an element of temp that no thread has written may hold *)
Garbage == {0, 1}

(* motionsim does not run *)
MotionOff ==
  /\ n_particles = 1 /\ nIterations = 0 /\ grid_size = MaxGrid /\ radius = 0
  /\ hpc = "idle" /\ fi = 0
  /\ red = [i |-> 0, y |-> 0, x |-> 0]
  /\ randomX = NoArray /\ randomY = NoArray
  /\ particleX = NoArray /\ particleY = NoArray
  /\ map = NoArray /\ grid = NoArray
  /\ a_randomX = NoArray /\ a_randomY = NoArray
  /\ a_particleX = NoArray /\ a_particleY = NoArray
  /\ a_map = NoArray
  /\ pc = NoArray /\ iter = NoArray
  /\ displacementX = NoArray /\ displacementY = NoArray
  /\ dX = NoArray /\ dY = NoArray /\ iX = NoArray /\ iY = NoArray
  /\ cnt = NoArray
  /\ wlog = {} /\ rlog = {}
  /\ argv1 = NoArg /\ mpc = "off" /\ exit_status = "none" /\ usage_shown = FALSE

motionVars == <<paramVars, cliVars, hostVars, deviceVars, pc, threadLocals, wlog, rlog>>

(* stencil main up to the device allocations: a[i] = i for i < N + RADIUS *)
InitStencil ==
  /\ MotionOff
  /\ a = [i \in 0 .. N + RADIUS - 1 |-> i]
  /\ b = NoArray
  /\ d_a = NoArray
  /\ d_b = [i \in 0 .. N - 1 |-> 0]
  /\ temp = [blk \in 0 .. NumBlocks - 1 |-> [j \in 0 .. TempSize - 1 |-> 0]]
  /\ spc = [g \in StencilThreads |-> "unlaunched"]
  /\ result = [g \in StencilThreads |-> 0]
  /\ slog = {}
  /\ shpc = "copyin"

-----------------------------------------------------------------------------
(* stencil_1d: the kernel *)

(* every thread of the block has arrived at __syncthreads *)
AllArrived(blk) ==
  \A h \in StencilThreads :
    blockIdx(h) = blk => spc[h] \in {"sync", "store", "done"}

(* records of the accesses of thread g: operation, array, index, thread,
   and whether all threads of its block had arrived at the barrier *)
Access(op, arr, idx, g) == <<op, arr, idx, g, AllArrived(blockIdx(g))>>

(* the threads of block blk *)
BlockThreads(blk) == blk * THREADS_PER_BLOCK .. (blk + 1) * THREADS_PER_BLOCK - 1

(* the threads of block blk with an access op of temp[j] on record *)
TempAccessors(op, blk, j) ==
  {h \in BlockThreads(blk) : \E late \in BOOLEAN : <<op, "temp", j, h, late>> \in slog}

(* an element of temp of block blk has been written *)
Written(blk, j) == TempAccessors("w", blk, j) # {}

(* temp[lindex] = in[gindex] *)
LoadCentre(g) ==
  /\ spc[g] = "load"
  /\ temp' = [temp EXCEPT ![blockIdx(g)][lindex(g)] = d_a[gindex(g)]]
  /\ slog' = slog \cup {Access("r", "in", gindex(g), g),
                        Access("w", "temp", lindex(g), g)}
  /\ spc' = [spc EXCEPT ![g] = IF threadIdx(g) < RADIUS THEN "haloL" ELSE "sync"]
  /\ UNCHANGED <<motionVars, a, b, d_a, d_b, result, shpc>>

M_LeftHaloZero(in, gi) == 0

(* (gindex < RADIUS) ? 0 : in[gindex - RADIUS] *)
LeftHalo(in, gi) == IF gi < RADIUS THEN 0 ELSE in[gi - RADIUS]

(* temp[lindex - RADIUS] = (gindex < RADIUS) ? 0 : in[gindex - RADIUS] *)
HaloLeft(g) ==
  /\ spc[g] = "haloL"
  /\ temp' = [temp EXCEPT ![blockIdx(g)][lindex(g) - RADIUS] = LeftHalo(d_a, gindex(g))]
  /\ slog' = slog \cup {Access("w", "temp", lindex(g) - RADIUS, g)}
                  \cup (IF gindex(g) < RADIUS THEN {}
                        ELSE {Access("r", "in", gindex(g) - RADIUS, g)})
  /\ spc' = [spc EXCEPT ![g] = "haloR"]
  /\ UNCHANGED <<motionVars, a, b, d_a, d_b, result, shpc>>

(* temp[lindex + BLOCK_SIZE] = in[gindex + BLOCK_SIZE] *)
HaloRight(g) ==
  /\ spc[g] = "haloR"
  /\ temp' = [temp EXCEPT ![blockIdx(g)][lindex(g) + BLOCK_SIZE] = d_a[gindex(g) + BLOCK_SIZE]]
  /\ slog' = slog \cup {Access("r", "in", gindex(g) + BLOCK_SIZE, g),
                        Access("w", "temp", lindex(g) + BLOCK_SIZE, g)}
  /\ spc' = [spc EXCEPT ![g] = "sync"]
  /\ UNCHANGED <<motionVars, a, b, d_a, d_b, result, shpc>>

M_BarrierNone(blk) == TRUE

(* __syncthreads(): a thread goes on when every thread of the block has arrived *)
BarrierOpen(blk) == AllArrived(blk)

(* result += temp[lindex + offset] for offset = -RADIUS .. upto *)
RECURSIVE WindowSum(_, _, _)
WindowSum(tmp, l, upto) ==
  IF upto < -RADIUS THEN 0 ELSE WindowSum(tmp, l, upto - 1) + tmp[l + upto]

(* thread g leaves __syncthreads and runs the loop over its window *)
ApplyStencil(g) ==
  /\ spc[g] = "sync"
  /\ BarrierOpen(blockIdx(g))
  /\ \E junk \in Garbage :
       LET seen == [j \in 0 .. TempSize - 1 |->
                      IF Written(blockIdx(g), j) THEN temp[blockIdx(g)][j] ELSE junk]
       IN result' = [result EXCEPT ![g] = WindowSum(seen, lindex(g), RADIUS)]
  /\ slog' = slog \cup {Access("r", "temp", lindex(g) + offset, g) :
                          offset \in -RADIUS .. RADIUS}
  /\ spc' = [spc EXCEPT ![g] = "store"]
  /\ UNCHANGED <<motionVars, a, b, d_a, d_b, temp, shpc>>

(* out[gindex] = result *)
StoreResult(g) ==
  /\ spc[g] = "store"
  /\ d_b' = [d_b EXCEPT ![gindex(g)] = result[g]]
  /\ slog' = slog \cup {Access("w", "out", gindex(g), g)}
  /\ spc' = [spc EXCEPT ![g] = "done"]
  /\ UNCHANGED <<motionVars, a, b, d_a, temp, result, shpc>>

-----------------------------------------------------------------------------
(* stencil_1d: the host *)

(* hipMemcpy(d_a, a, pad_size, hipMemcpyHostToDevice) *)
CopyIn ==
  /\ shpc = "copyin"
  /\ d_a' = a
  /\ shpc' = "launch"
  /\ UNCHANGED <<motionVars, a, b, d_b, temp, spc, result, slog>>

(* hipLaunchKernelGGL(stencil_1d, dim3(N / THREADS_PER_BLOCK), dim3(THREADS_PER_BLOCK), ...) *)
LaunchStencil ==
  /\ shpc = "launch"
  /\ spc' = [g \in 0 .. (N \div THREADS_PER_BLOCK) * THREADS_PER_BLOCK - 1 |-> "load"]
  /\ shpc' = "copyout"
  /\ UNCHANGED <<motionVars, a, b, d_a, d_b, temp, result, slog>>

(* hipMemcpy(b, d_b, size, hipMemcpyDeviceToHost): waits for the kernel *)
CopyOut ==
  /\ shpc = "copyout"
  /\ \A g \in DOMAIN spc : spc[g] = "done"
  /\ b' = d_b
  /\ shpc' = "verify"
  /\ UNCHANGED <<motionVars, a, d_a, d_b, temp, spc, result, slog>>

(* the first verification loop: s += j < RADIUS ? 0 : (a[j] - RADIUS), j = i .. upto *)
RECURSIVE EdgeSum(_, _, _)
EdgeSum(arr, i, upto) ==
  IF upto < i THEN 0
  ELSE EdgeSum(arr, i, upto - 1) + (IF upto < RADIUS THEN 0 ELSE arr[upto] - RADIUS)

(* the second verification loop: s += a[j], j = from .. upto *)
RECURSIVE InnerSum(_, _, _)
InnerSum(arr, from, upto) ==
  IF upto < from THEN 0 ELSE InnerSum(arr, from, upto - 1) + arr[upto]

(* the value s the verification compares b[i] with *)
HostSum(arr, i) ==
  IF i < 2 * RADIUS THEN EdgeSum(arr, i, i + 2 * RADIUS)
  ELSE InnerSum(arr, i - RADIUS, i + RADIUS)

(* the two verification loops: FAILED, return 1 at the first mismatch *)
Verify ==
  /\ shpc = "verify"
  /\ shpc' = IF \A i \in 0 .. N - 1 : HostSum(a, i) = b[i] THEN "passed" ELSE "failed"
  /\ UNCHANGED <<motionVars, a, b, d_a, d_b, temp, spc, result, slog>>

NextStencil ==
  \/ CopyIn
  \/ LaunchStencil
  \/ CopyOut
  \/ Verify
  \/ \E g \in StencilThreads : LoadCentre(g)
  \/ \E g \in StencilThreads : HaloLeft(g)
  \/ \E g \in StencilThreads : HaloRight(g)
  \/ \E g \in StencilThreads : ApplyStencil(g)
  \/ \E g \in StencilThreads : StoreResult(g)

SpecStencil == InitStencil /\ [][NextStencil]_vars

SpecFair == Init /\ [][Next]_vars /\ WF_vars(Next)

-----------------------------------------------------------------------------
(* The trajectory step under forced displacements: the tables hold the
   displacements themselves (in units) and the step adds them as they are,
   so that displacements the transformation of a draw never yields, (0, 0)
   among them, reach the rest of the step. *)

ForcedPairs == {<<0, 0>>, <<495, 0>>, <<0, -495>>}

InitForced ==
  /\ InitArrays
  /\ fi = n_particles * nIterations
  /\ \E tab \in [0 .. n_particles * nIterations - 1 -> ForcedPairs] :
       /\ randomX = [j \in DOMAIN tab |-> tab[j][1]]
       /\ randomY = [j \in DOMAIN tab |-> tab[j][2]]

(* move the particle by the table entry itself *)
AdvanceForced(t) ==
  /\ pc[t] = "advance"
  /\ AdvanceBy(t, a_randomX[RandIndex(iter[t], t)], a_randomY[RandIndex(iter[t], t)])
  /\ rlog' = rlog \cup TableReads(t)

NextForced ==
  \/ CopyToDevice
  \/ Launch
  \/ CopyBack
  \/ ReduceStep
  \/ \E t \in Threads : ThreadEntry(t)
  \/ \E t \in Threads : AdvanceForced(t)
  \/ \E t \in Threads : Classify(t)
  \/ \E t \in Threads : LoadCounter(t)
  \/ \E t \in Threads : StoreCounter(t)

SpecForced == InitForced /\ [][NextForced]_vars

-----------------------------------------------------------------------------
(* Helpers of the properties *)

Simulating == hpc = "copyback"
Reducing == hpc \in {"reduce", "done"}
Cells == 0 .. grid_size - 1
ZeroGrid == [cy \in Cells |-> [cx \in Cells |-> 0]]
ZeroMap == [j \in 0 .. MapSize - 1 |-> 0]

(* the accumulator slice of particle p *)
Slice(p) == p * grid_size * grid_size .. (p + 1) * grid_size * grid_size - 1

(* sum over the particles 0 .. n-1 of the private counter of cell (cy, cx) *)
RECURSIVE SumParticles(_, _, _, _)
SumParticles(m, n, cy, cx) ==
  IF n = 0 THEN 0
  ELSE SumParticles(m, n - 1, cy, cx)
       + m[(n - 1) * grid_size * grid_size + cy * grid_size + cx]

(* sum of the first k cells (row-major) of a grid *)
RECURSIVE GridSum(_, _)
GridSum(g, k) ==
  IF k = 0 THEN 0
  ELSE GridSum(g, k - 1) + g[(k - 1) \div grid_size][(k - 1) % grid_size]

(* the accumulators after running the particles one after the other, each
   through all its iterations, on the host tables *)
RECURSIVE SeqIter(_, _, _, _, _)
SeqIter(p, k, px, py, m) ==
  IF ~(k < nIterations) THEN m
  ELSE LET nx == px + Displacement(randomX[k * n_particles + p])
           ny == py + Displacement(randomY[k * n_particles + p])
           hit == InGrid(nx, ny) /\ InsideCell(nx - Trunc(nx), ny - Trunc(ny), radius)
       IN SeqIter(p, k + 1, nx, ny,
                  IF hit THEN [m EXCEPT ![MapIndex(p, Floor(ny), Floor(nx))] =
                                          Incremented(@)]
                  ELSE m)

RECURSIVE SeqAll(_, _)
SeqAll(p, m) ==
  IF p = n_particles THEN m
  ELSE SeqAll(p + 1, SeqIter(p, 0, particleX[p], particleY[p], m))

SeqMap == SeqAll(0, ZeroMap)

-----------------------------------------------------------------------------
(* C1: when the reduction has finished, every cell of the shared grid equals
   the sum over all particles of that cell's private counter, which is what
   adding every cell unconditionally (zero counts included) gives. *)
C1_ReductionSums ==
  hpc = "done" =>
    \A cy \in Cells, cx \in Cells :
      grid[cy][cx] = SumParticles(map, n_particles, cy, cx)

(* two particles contributed to one cell and a zero counter was skipped *)
C1_Witness ==
  /\ hpc = "done"
  /\ n_particles = 2
  /\ \E cy \in Cells, cx \in Cells :
       /\ map[cy * grid_size + cx] >= 1
       /\ map[grid_size * grid_size + cy * grid_size + cx] >= 1
       /\ grid[cy][cx] >= 2
  /\ \E j \in DOMAIN map : map[j] = 0

(* C2: during the simulation phase a step of thread t changes no position
   but its own, no counter outside its own accumulator slice, and neither the
   host accumulators nor the shared grid; every write is to a location the
   writing particle owns, so no location is written by two particles. *)
C2_OwnWrites ==
  /\ \A w \in wlog :
       /\ w[1] \in Particles
       /\ w[2] \in {"a_particleX", "a_particleY"} => w[3] = w[1]
       /\ w[2] = "a_map" => w[3] \in Slice(w[1])
  /\ \A w1 \in wlog, w2 \in wlog :
       (w1[2] = w2[2] /\ w1[3] = w2[3]) => w1[1] = w2[1]

C2_Frame ==
  \A t \in Threads :
    (Simulating /\ hpc' = hpc /\ pc'[t] # pc[t]) =>
      /\ \A p \in Particles \ {t} : /\ a_particleX'[p] = a_particleX[p]
                                    /\ a_particleY'[p] = a_particleY[p]
      /\ DOMAIN a_map' = DOMAIN a_map
      /\ \A j \in DOMAIN a_map \ Slice(t) : a_map'[j] = a_map[j]
      /\ grid' = grid
      /\ map' = map

C2_Isolation == [] C2_OwnWrites /\ [][C2_Frame]_vars

(* both particles have moved and both have incremented a counter *)
C2_Witness ==
  /\ n_particles = 2
  /\ \A p \in Particles :
       /\ <<p, "a_particleX", p>> \in wlog
       /\ \E j \in Slice(p) : <<p, "a_map", j>> \in wlog

(* C3: the reduction starts only when every thread has finished: whenever
   the host is past the copy-back no thread has an iteration left, and until
   then the host accumulators and the shared grid are still all zero. *)
C3_Barrier ==
  /\ Reducing => \A t \in Threads : pc[t] = "done"
  /\ ~Reducing => (grid = ZeroGrid /\ map = ZeroMap)

(* the reducer has read a nonzero counter after both particles ran *)
C3_Witness ==
  /\ hpc = "reduce"
  /\ n_particles = 2
  /\ nIterations = 2
  /\ grid # ZeroGrid

(* C4: the accumulators copied back and the final grid are those of the
   sequential execution on the same tables, whatever the interleaving; the
   displacement particle p uses in iteration k is the one of table entry
   k * P + p. *)
C4_Deterministic ==
  /\ Reducing => map = SeqMap
  /\ hpc = "done" =>
       \A cy \in Cells, cx \in Cells :
         grid[cy][cx] = SumParticles(SeqMap, n_particles, cy, cx)
  /\ \A t \in Threads :
       pc[t] \in {"classify", "load", "store"} =>
         /\ displacementX[t] = randomX[iter[t] * n_particles + t] * 10 - 495
         /\ displacementY[t] = randomY[iter[t] * n_particles + t] * 10 - 495

(* two particles, two iterations each, finished with a cell counted 3 times *)
C4_Witness ==
  /\ hpc = "done"
  /\ n_particles = 2
  /\ nIterations = 2
  /\ \E cy \in Cells, cx \in Cells : grid[cy][cx] >= 3

(* the position of particle t lies in [0, G) on both axes *)
InBounds(t) ==
  /\ 0 <= a_particleX[t] /\ a_particleX[t] < grid_size * Unit
  /\ 0 <= a_particleY[t] /\ a_particleY[t] < grid_size * Unit

(* the squared offset of particle t from the corner of its cell is <= r*r *)
NearCorner(t) ==
  (a_particleX[t] % Unit) * (a_particleX[t] % Unit)
    + (a_particleY[t] % Unit) * (a_particleY[t] % Unit) <= radius * radius

(* the counter of particle t at the cell (floor(y), floor(x)) of its position *)
CellOf(t) ==
  t * grid_size * grid_size + (a_particleY[t] \div Unit) * grid_size
    + (a_particleX[t] \div Unit)

(* thread t leaves the program position s in this step *)
Leaves(t, s) == pc[t] = s /\ pc'[t] # s

(* C5: a trajectory step goes on to increment a counter exactly when the
   moved position is inside [0, G) on both axes and within the radius of its
   cell corner; the increment adds 1 to the counter of that particle at cell
   (floor(y), floor(x)) and changes nothing else, and no other step of the
   simulation phase changes any counter. *)
C5_Step ==
  (Simulating /\ hpc' = hpc) =>
    /\ \A t \in Particles :
         Leaves(t, "classify") =>
           ((pc'[t] = "load") <=> (InBounds(t) /\ NearCorner(t)))
    /\ \A t \in Particles :
         Leaves(t, "store") =>
           /\ InBounds(t) /\ NearCorner(t)
           /\ a_map' = [a_map EXCEPT ![CellOf(t)] = a_map[CellOf(t)] + 1]
    /\ (\A t \in Particles : ~Leaves(t, "store")) => a_map' = a_map
    /\ \A t \in Particles : pc[t] = "load" => pc'[t] \in {"load", "store"}

C5_IncrementIff == [][C5_Step]_vars

(* a particle has run two steps: one incremented a counter, one did not *)
C5_Witness ==
  /\ Simulating
  /\ \E t \in Particles :
       /\ iter[t] = 2
       /\ \E j \in Slice(t) :
            /\ a_map[j] = 1
            /\ \A k \in Slice(t) \ {j} : a_map[k] = 0

(* C6: a particle whose moved position is < 0 or >= G on either axis (G
   itself included) never reaches the increment, whatever its offsets, and
   while it is outside no counter of its accumulator changes. *)
C6_Step ==
  \A t \in Particles :
    (Simulating /\ hpc' = hpc /\ ~InBounds(t)) =>
      /\ pc[t] \notin {"load", "store"}
      /\ pc'[t] \notin {"load", "store"}
      /\ \A j \in Slice(t) : a_map'[j] = a_map[j]

C6_HalfOpen == [][C6_Step]_vars

(* a particle was moved to x = G exactly, then further out, with y in the
   grid and offsets that pass the radius test, and has counted nothing *)
C6_Witness ==
  /\ Simulating
  /\ \E t \in Particles :
       /\ iter[t] = 2
       /\ a_particleX[t] = grid_size * Unit + 495
       /\ displacementX[t] = 495
       /\ 0 <= a_particleY[t] /\ a_particleY[t] < grid_size * Unit
       /\ NearCorner(t)
       /\ \A j \in Slice(t) : a_map[j] = 0

(* C7: in the final grid every cell is between 0 and P*I and the cells sum
   to at most P*I. *)
C7_Conservation ==
  hpc = "done" =>
    /\ \A cy \in Cells, cx \in Cells :
         0 <= grid[cy][cx] /\ grid[cy][cx] <= n_particles * nIterations
    /\ GridSum(grid, grid_size * grid_size) <= n_particles * nIterations

(* the bound is attained: every step of every particle was counted *)
C7_Witness ==
  /\ hpc = "done"
  /\ n_particles * nIterations = 4
  /\ GridSum(grid, grid_size * grid_size) = 4

(* C8: during the simulation every private counter of particle p is between
   0 and the number of iterations p has completed, which is at most I, and
   no step lowers a counter. *)
C8_Bounded ==
  Simulating =>
    \A p \in Particles :
      /\ iter[p] <= nIterations
      /\ \A j \in Slice(p) : 0 <= a_map[j] /\ a_map[j] <= iter[p]

C8_Monotone ==
  (Simulating /\ hpc' = hpc) => \A j \in DOMAIN a_map : a_map'[j] >= a_map[j]

C9_ZeroIterations ==
  nIterations = 0 =>
    /\ \A t \in Threads : pc[t] \in {"unlaunched", "entry", "done"}
    /\ grid = ZeroGrid
    /\ map = ZeroMap
    /\ hpc # "fill" =>
         (a_map = ZeroMap /\ a_particleX = particleX /\ a_particleY = particleY)
    /\ wlog = {}

(* a run with I = 0 and two particles has finished *)
C9_Witness ==
  /\ nIterations = 0
  /\ n_particles = 2
  /\ hpc = "done"

(* every displacement of particle p, on both axes, is 0 *)
Stationary(p) ==
  \A k \in 0 .. nIterations - 1 :
    randomX[k * n_particles + p] = 0 /\ randomY[k * n_particles + p] = 0

(* particle p starts on an integer grid coordinate inside the grid *)
StartsOnCell(p) ==
  /\ particleX[p] % Unit = 0 /\ 0 <= particleX[p] /\ particleX[p] < grid_size * Unit
  /\ particleY[p] % Unit = 0 /\ 0 <= particleY[p] /\ particleY[p] < grid_size * Unit

StartRow(p) == particleY[p] \div Unit
StartCol(p) == particleX[p] \div Unit

(* C10 (under forced displacements): a particle that starts on an integer
   grid coordinate inside the grid and whose displacements are all (0, 0)
   has, when it has finished, the counter of its start cell equal to I and
   all its other counters 0, for every radius >= 0; if every particle is
   such, the final grid holds P*I at the start cell and 0 elsewhere. *)
C10_Stationary ==
  /\ \A p \in Particles :
       (pc[p] = "done" /\ Stationary(p) /\ StartsOnCell(p)) =>
         \A j \in Slice(p) :
           a_map[j] = IF j = p * grid_size * grid_size
                                + StartRow(p) * grid_size + StartCol(p)
                      THEN nIterations ELSE 0
  /\ (hpc = "done" /\ \A p \in Particles : Stationary(p) /\ StartsOnCell(p)) =>
       \A cy \in Cells, cx \in Cells :
         grid[cy][cx] = IF cy = StartRow(0) /\ cx = StartCol(0)
                        THEN n_particles * nIterations ELSE 0

(* a stationary particle at (1.0, 1.0) has finished two iterations with
   radius 0 and counted both *)
C10_Witness ==
  /\ nIterations = 2
  /\ radius = 0
  /\ \E p \in Particles :
       /\ pc[p] = "done"
       /\ Stationary(p)
       /\ particleX[p] = Unit /\ particleY[p] = Unit
       /\ a_map[p * grid_size * grid_size + grid_size + 1] = 2

-----------------------------------------------------------------------------
(* Orders in which the reduction could visit the (particle, row, column)
   triples: every permutation of the particles, combined with three
   traversals of the cells and with both nestings of the two loops. *)

CellCount == grid_size * grid_size
Traversals == {"rows", "reversed", "columns"}
Nestings == {"particle-outer", "cell-outer"}

CellAt(c, trav) ==
  IF trav = "rows" THEN <<c \div grid_size, c % grid_size>>
  ELSE IF trav = "reversed"
       THEN <<(CellCount - 1 - c) \div grid_size, (CellCount - 1 - c) % grid_size>>
  ELSE <<c % grid_size, c \div grid_size>>

VisitOrder(perm, trav, nest) ==
  [n \in 1 .. n_particles * CellCount |->
     LET q == IF nest = "particle-outer" THEN (n - 1) \div CellCount
                                         ELSE (n - 1) % n_particles
         c == IF nest = "particle-outer" THEN (n - 1) % CellCount
                                         ELSE (n - 1) \div n_particles
     IN <<perm[q], CellAt(c, trav)[1], CellAt(c, trav)[2]>>]

(* the grid after the loop body has been applied in the order ord *)
RECURSIVE FoldOrder(_, _, _)
FoldOrder(ord, m, g) ==
  IF ord = <<>> THEN g
  ELSE FoldOrder(Tail(ord), m,
                 ReduceCell(g, m, Head(ord)[1], Head(ord)[2], Head(ord)[3]))

Triples == Particles \X Cells \X Cells

(* C11: the grid the code's order p = 0..P-1, y = 0..G-1, x = 0..G-1 has
   produced is the grid every other visiting order produces from the same
   accumulators, and two applications of the loop body commute on it. *)
C11_AnyOrder ==
  hpc = "done" =>
    /\ \A perm \in Permutations(Particles), trav \in Traversals, nest \in Nestings :
         FoldOrder(VisitOrder(perm, trav, nest), map, ZeroGrid) = grid
    /\ \A c1 \in Triples, c2 \in Triples :
         ReduceCell(ReduceCell(grid, map, c1[1], c1[2], c1[3]), map, c2[1], c2[2], c2[3])
           = ReduceCell(ReduceCell(grid, map, c2[1], c2[2], c2[3]), map, c1[1], c1[2], c1[3])

(* two particles hold different nonzero counts of one cell *)
C11_Witness ==
  /\ hpc = "done"
  /\ n_particles = 2
  /\ \E cy \in Cells, cx \in Cells :
       /\ map[cy * grid_size + cx] = 1
       /\ map[CellCount + cy * grid_size + cx] = 2
       /\ grid[cy][cx] = 3

-----------------------------------------------------------------------------
(* C12 as stated: every table entry is an integer in [0, 99] and every
   displacement used lies in [-0.0495, +0.0445]. *)
C12_Original ==
  /\ \A j \in DOMAIN randomX : randomX[j] \in 0 .. 99 /\ randomY[j] \in 0 .. 99
  /\ \A t \in Threads :
       /\ -495 <= displacementX[t] /\ displacementX[t] <= 445
       /\ -495 <= displacementY[t] /\ displacementY[t] <= 445

(* C12 (amended): every table entry, on host and device, is an integer in
   [0, 99]; value/1000 - 0.0495 maps [0, 99] into [-0.0495, +0.0495], draw 0
   to -0.0495 and draw 99 to +0.0495, and every displacement a thread uses
   lies in that range. *)
C12_Range ==
  /\ \A j \in DOMAIN randomX : randomX[j] \in 0 .. 99 /\ randomY[j] \in 0 .. 99
  /\ \A j \in DOMAIN a_randomX : a_randomX[j] \in 0 .. 99 /\ a_randomY[j] \in 0 .. 99
  /\ \A v \in 0 .. 99 : -495 <= Displacement(v) /\ Displacement(v) <= 495
  /\ Displacement(0) = -495
  /\ Displacement(99) = 495
  /\ \A t \in Threads :
       /\ -495 <= displacementX[t] /\ displacementX[t] <= 495
       /\ -495 <= displacementY[t] /\ displacementY[t] <= 495

(* a thread has just moved by (+0.0495, -0.0495): draws 99 and 0 *)
C12_Witness ==
  \E t \in Particles :
    /\ pc[t] = "classify"
    /\ a_randomX[iter[t] * n_particles + t] = 99
    /\ a_randomY[iter[t] * n_particles + t] = 0
    /\ displacementX[t] = 495
    /\ displacementY[t] = -495

-----------------------------------------------------------------------------
TableIndices == 0 .. nIterations * n_particles - 1

TableFull == DOMAIN randomX = TableIndices /\ DOMAIN randomY = TableIndices

C13_State ==
  /\ hpc = "fill" =>
       /\ DOMAIN randomX = 0 .. fi - 1 /\ DOMAIN randomY = 0 .. fi - 1
       /\ \A t \in Threads : pc[t] = "unlaunched"
       /\ rlog = {}
  /\ hpc # "fill" => (TableFull /\ a_randomX = randomX /\ a_randomY = randomY)
  /\ \A e \in rlog :
       /\ e[1] \in Particles
       /\ e[3] \in 0 .. nIterations - 1
       /\ e[4] = e[3] * n_particles + e[1]
       /\ e[4] \in TableIndices
  /\ \A e1 \in rlog, e2 \in rlog :
       (e1[2] = e2[2] /\ e1[4] = e2[4]) => (e1[1] = e2[1] /\ e1[3] = e2[3])
  /\ (hpc # "fill" /\ \A t \in Threads : pc[t] = "done") =>
       \A j \in TableIndices :
         \E e1 \in rlog, e2 \in rlog :
           /\ e1[2] = "a_randomX" /\ e1[4] = j
           /\ e2[2] = "a_randomY" /\ e2[4] = j

C13_Frozen ==
  hpc # "fill" =>
    /\ randomX' = randomX /\ randomY' = randomY
    /\ a_randomX' = a_randomX /\ a_randomY' = a_randomY

(* C13: each table holds exactly I*P entries and is complete before any
   thread exists; once the fill loop is left neither the host nor the
   device table changes; particle p in iteration k reads entry k*P + p of
   each axis, every index read is in [0, I*P), no entry is read by two
   (iteration, particle) pairs and, when all threads are done, every entry
   has been read. *)
C13_TableUse == [] C13_State /\ [][C13_Frozen]_vars

(* two particles have run two iterations each: all four entries were read *)
C13_Witness ==
  /\ n_particles = 2
  /\ nIterations = 2
  /\ \A t \in Threads : pc[t] = "done"
  /\ Cardinality(rlog) = 8

-----------------------------------------------------------------------------
(* the transitions of one particle's state machine *)
ThreadMoves ==
  {<<"unlaunched", "entry">>, <<"entry", "advance">>, <<"entry", "done">>,
   <<"advance", "classify">>, <<"classify", "load">>, <<"classify", "advance">>,
   <<"classify", "done">>, <<"load", "store">>, <<"store", "advance">>,
   <<"store", "done">>}

HostMoves ==
  {<<"fill", "launch">>, <<"launch", "copyback">>, <<"copyback", "reduce">>,
   <<"reduce", "done">>}

C14_Shape ==
  /\ hpc \in {"fill", "launch", "copyback", "reduce", "done"}
  /\ \A t \in Threads :
       pc[t] \in {"unlaunched", "entry", "advance", "classify", "load", "store", "done"}
  /\ \A t \in Particles :
       /\ pc[t] \in {"advance", "classify", "load", "store"} => iter[t] < nIterations
       /\ pc[t] = "done" =>
            /\ iter[t] = nIterations
            /\ Cardinality({e \in rlog : e[1] = t /\ e[2] = "a_randomX"}) = nIterations
  /\ ~ENABLED Next => hpc = "done"

C14_Moves ==
  /\ hpc' # hpc => <<hpc, hpc'>> \in HostMoves
  /\ \A t \in Threads :
       /\ pc'[t] # pc[t] => <<pc[t], pc'[t]>> \in ThreadMoves
       /\ iter'[t] \in {iter[t], iter[t] + 1}
       /\ iter'[t] # iter[t] => pc[t] \in {"classify", "store"}

(* C14: every thread only moves along Init -> (Advance -> Classify ->
   accumulate or skip) -> ... -> Done, a particle is Done after exactly I
   passes, the only state without a successor is the reduced one, and under
   fair scheduling every run reaches it and stays there. *)
C14_RunsToCompletion ==
  /\ [] C14_Shape
  /\ [][C14_Moves]_vars
  /\ <>[](hpc = "done")

(* the run has ended after two particles made two passes each *)
C14_Witness ==
  /\ hpc = "done"
  /\ n_particles = 2
  /\ nIterations = 2
  /\ ~ENABLED Next
  /\ \A t \in Particles : pc[t] = "done" /\ iter[t] = 2

-----------------------------------------------------------------------------
(* the argument is a decimal integer: an optional sign and digits only *)
Numeric(str) ==
  /\ str # NoArg
  /\ LET body == IF str # <<>> /\ Head(str) \in {"-", "+"} THEN Tail(str) ELSE str
     IN /\ body # <<>>
        /\ \A n \in 1 .. Len(body) : body[n] \in DigitChars

(* C15: when the process has ended, either the argument was missing or
   non-numeric, usage was printed, the exit status is 1 and nothing was
   allocated; or the simulation ran with the argument's value as iteration
   count and the exit status is 0. *)
C15_CommandLine ==
  mpc = "exited" =>
    IF ~Numeric(argv1)
    THEN usage_shown /\ exit_status = "1" /\ hpc = "idle"
    ELSE /\ exit_status = "0"
         /\ hpc = "done"
         /\ nIterations = Stoi(argv1).value

-----------------------------------------------------------------------------
(* the moves thread t has applied: one per finished iteration and one more
   while the current iteration is past its move *)
MovesDone(t) == iter[t] + (IF pc[t] \in {"classify", "load", "store"} THEN 1 ELSE 0)

(* the sum of the displacements of particle t in iterations 0 .. k-1 *)
RECURSIVE SumDisplacements(_, _, _)
SumDisplacements(tab, t, k) ==
  IF k = 0 THEN 0
  ELSE SumDisplacements(tab, t, k - 1) + Displacement(tab[k * n_particles - n_particles + t])

C17_Position ==
  Simulating =>
    \A t \in Particles :
      /\ a_particleX[t] = particleX[t] + SumDisplacements(a_randomX, t, MovesDone(t))
      /\ a_particleY[t] = particleY[t] + SumDisplacements(a_randomY, t, MovesDone(t))
      /\ \A e \in rlog : e[1] = t => e[3] < MovesDone(t)
      /\ \A k \in 0 .. MovesDone(t) - 1 : <<t, "a_randomX", k, k * n_particles + t>> \in rlog

C17_Order ==
  Simulating =>
    \A t \in Particles :
      /\ iter'[t] \in {iter[t], iter[t] + 1}
      /\ (pc[t] = "classify" /\ pc'[t] # "classify" /\ pc'[t] # "load")
           => (pc'[t] = "advance" <=> iter'[t] < nIterations)
      /\ (pc[t] = "advance" /\ pc'[t] = "classify")
           => /\ a_particleX'[t] = a_particleX[t] + Displacement(a_randomX[iter[t] * n_particles + t])
              /\ a_particleY'[t] = a_particleY[t] + Displacement(a_randomY[iter[t] * n_particles + t])

(* C17: a position is never clamped, wrapped or reset: after k moves it is
   the initial position plus the first k displacements of the particle, the
   iterations are taken in order 0, 1, 2, ..., a particle outside the grid is
   moved on in every later iteration, and one that comes back into the grid
   and inside the radius increments again. *)
C17_FreeAccumulation == [] C17_Position /\ [][C17_Order]_vars

(* a particle that was at x = G, outside the grid, after its first move is
   back in the grid after the second and is about to store an increment *)
C17_Witness ==
  /\ Simulating
  /\ \E t \in Particles :
       /\ iter[t] = 1
       /\ pc[t] = "store"
       /\ particleX[t] + Displacement(a_randomX[t]) = grid_size * Unit
       /\ a_particleX[t] = grid_size * Unit - 495
       /\ iX[t] = grid_size - 1

-----------------------------------------------------------------------------
(* trunc() and floor() of v differ *)
Diverges(v) == Trunc(v) # Floor(v) * Unit

C18_State ==
  \A t \in Particles :
    pc[t] \in {"load", "store"} =>
      /\ a_particleX[t] >= 0 /\ a_particleY[t] >= 0
      /\ ~Diverges(a_particleX[t]) /\ ~Diverges(a_particleY[t])
      /\ iX[t] = Floor(a_particleX[t]) /\ iY[t] = Floor(a_particleY[t])
      /\ 0 <= iX[t] /\ iX[t] <= grid_size - 1
      /\ 0 <= iY[t] /\ iY[t] <= grid_size - 1
      /\ dX[t] = a_particleX[t] - iX[t] * Unit
      /\ dY[t] = a_particleY[t] - iY[t] * Unit
      /\ 0 <= dX[t] /\ dX[t] < Unit
      /\ 0 <= dY[t] /\ dY[t] < Unit

C18_Step ==
  \A t \in Particles :
    /\ (pc[t] = "store" /\ pc'[t] # "store") =>
         \A j \in DOMAIN a_map :
           a_map'[j] # a_map[j] =>
             j = t * grid_size * grid_size + iY[t] * grid_size + iX[t]
    /\ (/\ pc[t] = "classify"
        /\ pc'[t] # "classify"
        /\ Diverges(a_particleX[t]) \/ Diverges(a_particleY[t]))
         => (pc'[t] # "load" /\ iter'[t] = iter[t] + 1 /\ a_map' = a_map)

(* C18: a thread that is incrementing has non-negative coordinates, trunc
   and floor agree on both axes, its offsets are in [0, 1) and measured
   from the corner of the cell (floor(y), floor(x)) whose counter it
   increments, with both cell indices in 0 .. G-1; a step in which trunc
   and floor differ is rejected and changes no counter. *)
C18_TruncIsFloor == [] C18_State /\ [][C18_Step]_vars

(* one thread stores an increment at offset 0.0495 from the corner of cell
   (0, 0) while another has been rejected at x = -0.0495, where trunc gave
   the offset -0.0495 and floor the cell index -1 *)
C18_Witness ==
  /\ Simulating
  /\ \E t \in Particles, u \in Particles :
       /\ pc[t] = "store"
       /\ dX[t] = 495 /\ iX[t] = 0 /\ iY[t] = 0
       /\ a_particleX[u] = -495
       /\ dX[u] = -495
       /\ iX[u] = -1
       /\ iter[u] = 1
       /\ \A j \in Slice(u) : a_map[j] = 0

-----------------------------------------------------------------------------
(* the threads beyond the particles *)
Spare == {t \in DOMAIN pc : t >= n_particles}

C20_State ==
  /\ LET launched == Cardinality(DOMAIN pc)
     IN /\ DOMAIN pc = 0 .. launched - 1
        /\ launched % BlockDim = 0
        /\ launched >= n_particles
        /\ launched - n_particles < BlockDim
  /\ \A t \in Spare :
       /\ pc[t] \in {"unlaunched", "entry", "done"}
       /\ iter[t] = 0 /\ cnt[t] = 0
       /\ displacementX[t] = 0 /\ displacementY[t] = 0
       /\ dX[t] = 0 /\ dY[t] = 0 /\ iX[t] = 0 /\ iY[t] = 0
  /\ \A e \in rlog : e[1] \in Particles
  /\ \A e \in wlog :
       /\ e[1] \in Particles
       /\ e[2] \in {"a_particleX", "a_particleY"} => e[3] = e[1]
       /\ e[2] = "a_map" => e[3] \in Slice(e[1])
  /\ (nIterations > 0 /\ \A t \in DOMAIN pc : pc[t] = "done") =>
       /\ {e[1] : e \in rlog} = Particles
       /\ {e[1] : e \in {w \in wlog : w[2] = "a_particleX"}} = Particles

C20_Step ==
  \A t \in Spare :
    pc'[t] # pc[t] =>
      /\ <<pc[t], pc'[t]>> \in {<<"unlaunched", "entry">>, <<"entry", "done">>}
      /\ UNCHANGED <<deviceVars, threadLocals, wlog, rlog>>

(* C20: the kernel runs the smallest multiple of the block size that is at
   least P threads; a thread with index >= P goes from entry straight to
   done, reads no table entry and writes no position and no counter; the
   threads that move a particle are exactly 0 .. P-1, thread t moving
   particle t only. *)
C20_OneThreadPerParticle == [] C20_State /\ [][C20_Step]_vars

(* one particle in a block of two threads: thread 1 has returned at once,
   thread 0 has run both iterations *)
C20_Witness ==
  /\ n_particles = 1
  /\ nIterations = 2
  /\ DOMAIN pc = {0, 1}
  /\ pc[0] = "done" /\ pc[1] = "done"
  /\ Cardinality(rlog) = 4
  /\ hpc = "copyback"

-----------------------------------------------------------------------------
(* the sum of in[k] for k = g - RADIUS .. upto, where in[k] is 0 for k < 0 *)
RECURSIVE StencilSum(_, _, _)
StencilSum(in, g, upto) ==
  IF upto < g - RADIUS THEN 0
  ELSE StencilSum(in, g, upto - 1) + (IF upto < 0 THEN 0 ELSE in[upto])

KernelDone == shpc # "off" /\ \A g \in DOMAIN spc : spc[g] = "done"

(* C16: the kernel runs N / THREADS_PER_BLOCK blocks of THREADS_PER_BLOCK
   threads on N + RADIUS input elements; whatever the interleaving, a
   thread that has summed holds, and a thread that has stored has written
   to out[g], the sum of in[g - RADIUS .. g + RADIUS] with in[k] = 0 for
   k < 0; the verification loops compute the same value for every g and
   the program never reports FAILED. *)
C16_StencilSum ==
  shpc \notin {"off", "copyin", "launch"} =>
    /\ DOMAIN spc = 0 .. N - 1
    /\ N % THREADS_PER_BLOCK = 0
    /\ DOMAIN d_a = 0 .. N + RADIUS - 1
    /\ DOMAIN d_b = 0 .. N - 1
    /\ \A g \in DOMAIN spc :
         /\ spc[g] \in {"store", "done"} => result[g] = StencilSum(d_a, g, g + RADIUS)
         /\ spc[g] = "done" => d_b[g] = StencilSum(d_a, g, g + RADIUS)
    /\ \A g \in 0 .. N - 1 : HostSum(a, g) = StencilSum(d_a, g, g + RADIUS)
    /\ shpc \in {"verify", "passed"} =>
         \A g \in 0 .. N - 1 : b[g] = HostSum(a, g)
    /\ shpc # "failed"

(* the program has printed PASSED; the first result has the zero padding
   on its left, the last one reaches into the input's padding on the right *)
C16_Witness ==
  /\ shpc = "passed"
  /\ b[0] = InnerSum(a, 0, RADIUS)
  /\ b[N - 1] = InnerSum(a, N - 1 - RADIUS, N - 1 + RADIUS)
  /\ b[N - 1] > b[0]

-----------------------------------------------------------------------------
(* C19: every access of temp is at an index in [0, BLOCK_SIZE + 2*RADIUS),
   of in in [0, N + RADIUS), of out in [0, N); the writes of temp happen
   before, the reads after all threads of the block have arrived at the
   barrier; no element of temp has two writers, from then on every element
   has exactly one, and every element read had been written by then. *)
C19_RaceFree ==
  /\ \A e \in slog :
       /\ e[4] \in StencilThreads
       /\ e[2] = "temp" => (0 <= e[3] /\ e[3] < BLOCK_SIZE + 2 * RADIUS)
       /\ e[2] = "in" => (0 <= e[3] /\ e[3] < N + RADIUS)
       /\ e[2] = "out" => (0 <= e[3] /\ e[3] < N)
       /\ (e[2] = "temp" /\ e[1] = "w") => e[5] = FALSE
       /\ (e[2] = "temp" /\ e[1] = "r") => e[5] = TRUE
  /\ \A blk \in 0 .. NumBlocks - 1 :
       \A j \in 0 .. BLOCK_SIZE + 2 * RADIUS - 1 :
         /\ Cardinality(TempAccessors("w", blk, j)) <= 1
         /\ AllArrived(blk) => Cardinality(TempAccessors("w", blk, j)) = 1
         /\ TempAccessors("r", blk, j) # {} => TempAccessors("w", blk, j) # {}

(* in a block whose threads have all arrived at the barrier, a thread has read a halo element
   another thread wrote, while the other block is still writing *)
C19_Witness ==
  /\ \E blk \in 0 .. NumBlocks - 1 :
       /\ AllArrived(blk)
       /\ TempAccessors("r", blk, BLOCK_SIZE + 2 * RADIUS - 1)
            \ TempAccessors("w", blk, BLOCK_SIZE + 2 * RADIUS - 1) # {}
  /\ \E blk \in 0 .. NumBlocks - 1 : ~AllArrived(blk)

====
